---- MODULE Spec2Model ----
(***************************************************************************)
(* Data-quality checks on a loan dataset (data_checks.py).                 *)
(*                                                                         *)
(* A DataFrame is a record [columns, rows]: columns is the ordered list of *)
(* column names, rows the ordered list of records (row i carries index     *)
(* label i).  A cell is a tagged tuple:                                    *)
(*   <<"null">>                 None / NaN / NaT                           *)
(*   <<"num", n>>               a number                                   *)
(*   <<"numstr", n>>            a string that spells the number n          *)
(*   <<"text", k>>              a string that spells no number             *)
(*   <<"datestr", sep, a, b, c>> the string "a<sep>b<sep>c"                *)
(*   <<"ts", y, m, d>>          a Timestamp                                *)
(* A report that is a subset of the rows is the sequence of their index    *)
(* labels, in the order the returned frame lists them.                     *)
(***************************************************************************)
EXTENDS Integers, Sequences, FiniteSets

VARIABLES X, mc_errors, last

vars == <<X, mc_errors, last>>

\* ---------------------------------------------------------------- bounds
MaxRows == 2
MaxId == 2

\* ------------------------------------------------------------- utilities
Range(s) == {s[i] : i \in 1..Len(s)}

\* the increasing enumeration of a finite set of naturals
RECURSIVE Ascending(_)
Ascending(S) ==
    IF S = {} THEN <<>>
    ELSE LET m == CHOOSE x \in S : \A y \in S : x <= y
         IN <<m>> \o Ascending(S \ {m})

\* ------------------------------------------------------------ cell values
Null == <<"null">>
Num(n) == <<"num", n>>
NumStr(n) == <<"numstr", n>>
Text(k) == <<"text", k>>
DateStr(sep, a, b, c) == <<"datestr", sep, a, b, c>>
Ts(y, m, d) == <<"ts", y, m, d>>

Tag(v) == v[1]
IsNull(v) == Tag(v) = "null"

\* --------------------------------------------------------------- schema
mandatory_columns ==
    << "loan_id", "disbursement_date", "expire_date", "is_employed",
       "loan_amount", "number_of_defaults", "outstanding_balance",
       "interest_rate", "age", "remaining_term", "salary", "sector",
       "currency", "employee_sector", "status", "loan_status" >>

num_columns ==
    << "loan_amount", "number_of_defaults", "outstanding_balance",
       "interest_rate", "age", "remaining_term", "salary" >>

default_num_columns_ck == << "loan_amount", "interest_rate", "age", "salary" >>

\* X.filter(regex="date").columns: the columns whose name contains "date"
DateLikeNames == {"disbursement_date", "expire_date"}

dates_columns(D) == SelectSeq(D.columns, LAMBDA c : c \in DateLikeNames)

fmt_dmy_slash == [sep |-> "/", order |-> "dmy"]
fmt_ymd_dash == [sep |-> "-", order |-> "ymd"]
fmt_mdy_slash == [sep |-> "/", order |-> "mdy"]
fmt_dmy_dash == [sep |-> "-", order |-> "dmy"]
fmt_ymd_dot == [sep |-> ".", order |-> "ymd"]
\* a format string holding a directive strptime does not know
fmt_bad == [sep |-> "/", order |-> "bad"]

default_date_formats ==
    << fmt_dmy_slash, fmt_ymd_dash, fmt_mdy_slash, fmt_dmy_dash, fmt_ymd_dot >>

\* ------------------------------------------------------------ DataFrames
Index(D) == 1..Len(D.rows)

\* the index labels of the rows satisfying P, in frame order (boolean mask)
Mask(D, P(_)) == Ascending({i \in Index(D) : P(i)})

\* D[cols] as a frame of its own: the listed columns of D, in the listed order
Select(D, cols) ==
    [columns |-> cols,
     rows |-> [i \in Index(D) |-> [c \in Range(cols) |-> D.rows[i][c]]]]

\* Series.isnull() of column c
isnull(D, c) == {i \in Index(D) : IsNull(D.rows[i][c])}

\* D[cols].isnull().any(axis=1)
any_null_in_row(D, cols, i) == \E c \in Range(cols) : IsNull(D.rows[i][c])

\* D[cols].apply(f) assigned back to D[cols]
apply_columns(D, cols, f(_)) ==
    [D EXCEPT !.rows =
        [i \in Index(D) |->
            [c \in DOMAIN D.rows[i] |->
                IF c \in Range(cols) THEN f(D.rows[i][c]) ELSE D.rows[i][c]]]]

\* ------------------------------------------------------------ conversions
IsLeap(y) == (y % 4 = 0 /\ y % 100 # 0) \/ y % 400 = 0

DaysInMonth(y, m) ==
    IF m = 2 THEN (IF IsLeap(y) THEN 29 ELSE 28)
    ELSE IF m \in {4, 6, 9, 11} THEN 30 ELSE 31

\* %Y takes four digits, %m and %d one or two
ValidDate(y, m, d) ==
    /\ y >= 1000 /\ y <= 9999
    /\ m >= 1 /\ m <= 12
    /\ d >= 1 /\ d <= DaysInMonth(y, m)

\* strptime of the string a<sep>b<sep>c under one format; NaT when it does not match
strptime(s, fmt) ==
    LET a == s[3]
        b == s[4]
        c == s[5]
    IN IF s[2] # fmt.sep THEN Null
       ELSE IF fmt.order = "dmy" THEN (IF ValidDate(c, b, a) THEN Ts(c, b, a) ELSE Null)
       ELSE IF fmt.order = "mdy" THEN (IF ValidDate(c, a, b) THEN Ts(c, a, b) ELSE Null)
       ELSE IF fmt.order = "ymd" THEN (IF ValidDate(a, b, c) THEN Ts(a, b, c) ELSE Null)
       ELSE Null

\* pd.to_datetime(v, format=fmt, errors="coerce") on one cell of a date column:
\* a Timestamp stays as it is, a string is parsed under fmt, the rest is NaT
to_datetime(v, fmt) ==
    IF Tag(v) = "ts" THEN v
    ELSE IF Tag(v) = "datestr" THEN strptime(v, fmt)
    ELSE Null

\* to_datetime raises (whatever errors= says) when the format holds an unknown
\* directive and some column still holds strings to parse
to_datetime_raises(D, cols, fmt) ==
    /\ fmt.order = "bad"
    /\ \E i \in Index(D) : \E c \in Range(cols) : Tag(D.rows[i][c]) = "datestr"

\* pd.to_numeric(v, errors="coerce") on one cell
to_numeric(v) ==
    IF Tag(v) = "num" THEN v
    ELSE IF Tag(v) = "numstr" THEN Num(v[2])
    ELSE Null

\* mutation of ts_gt: the comparison written >= instead of >
ts_gt_or_equal(a, b) ==
    /\ Tag(a) = "ts" /\ Tag(b) = "ts"
    /\ \/ a[2] > b[2]
       \/ a[2] = b[2] /\ a[3] > b[3]
       \/ a[2] = b[2] /\ a[3] = b[3] /\ a[4] >= b[4]

\* Timestamp a > Timestamp b; any comparison with NaT is False
ts_gt(a, b) ==
    /\ Tag(a) = "ts" /\ Tag(b) = "ts"
    /\ \/ a[2] > b[2]
       \/ a[2] = b[2] /\ a[3] > b[3]
       \/ a[2] = b[2] /\ a[3] = b[3] /\ a[4] > b[4]

\* mutation of non_positive: the (v == 0) disjunct left out
non_positive_negative_only(v) == Tag(v) = "num" /\ v[2] < 0

\* (v < 0) | (v == 0) on a numeric cell; any comparison with NaN is False
non_positive(v) == Tag(v) = "num" /\ (v[2] < 0 \/ v[2] = 0)

\* a string cell: comparing it with 0 by < raises TypeError
IsStr(v) == Tag(v) \in {"numstr", "text", "datestr"}

\* ------------------------------------------------------- sort_values(by)
\* sort_values uses the default kind="quicksort", which is not stable: every
\* arrangement that is ordered by the key is a possible outcome.
Arrangements(s) ==
    {[i \in 1..Len(s) |-> s[p[i]]] :
        p \in {q \in [1..Len(s) -> 1..Len(s)] : \A i, j \in 1..Len(s) : i # j => q[i] # q[j]}}

sort_values(s, InOrder(_, _)) ==
    {t \in Arrangements(s) : \A i \in 1..Len(t) : \A j \in 1..Len(t) : i < j => InOrder(t[i], t[j])}

\* ------------------------------------------------------ return values
\* What a transform call hands back: a report (index: the returned rows'
\* labels; summary: (column, count) pairs), the returned frame when the
\* call returns its input, or the exception it raised.  The remaining
\* fields record the arguments of the call.
NoFrame == [columns |-> <<>>, rows |-> <<>>]

NoCall ==
    [op |-> "none", status |-> "none", index |-> <<>>, summary |-> <<>>,
     returned |-> NoFrame, exc |-> "", text |-> "", names |-> <<>>,
     arg |-> <<>>, formats |-> <<>>, ck |-> <<>>]

Returns(op, D) == [NoCall EXCEPT !.op = op, !.status = "ok", !.arg = D.columns]

Raises(op, D, exc, text, names) ==
    [NoCall EXCEPT !.op = op, !.status = "raise", !.arg = D.columns,
                   !.exc = exc, !.text = text, !.names = names]

\* ------------------------------------------------------ MandatoryColumns
NoErrors == [none |-> TRUE, list |-> <<>>]

\* mutation of missing_columns: the two column lists exchanged
missing_columns_exchanged(D) ==
    SelectSeq(D.columns, LAMBDA col : col \notin Range(mandatory_columns))

missing_columns(D) ==
    SelectSeq(mandatory_columns, LAMBDA col : col \notin Range(D.columns))

MandatoryColumns_transform(D) ==
    /\ mc_errors' = [none |-> FALSE, list |-> missing_columns(D)]
    /\ last' = [Returns("MandatoryColumns", D) EXCEPT !.returned = D]
    /\ UNCHANGED X

\* ---------------------------------------------------- CheckMissingValues
\* X.isnull().sum(), restricted to the columns with a positive count
missing_counts(D) ==
    LET counts == [k \in 1..Len(D.columns) |->
                      <<D.columns[k], Cardinality(isnull(D, D.columns[k]))>>]
    IN SelectSeq(counts, LAMBDA e : e[2] > 0)

\* mutation of CheckMissingValues_reports: ascending=False left out
CheckMissingValues_reports_ascending(D) ==
    sort_values(missing_counts(D), LAMBDA e, f : e[2] <= f[2])

CheckMissingValues_reports(D) ==
    sort_values(missing_counts(D), LAMBDA e, f : e[2] >= f[2])

CheckMissingValues_transform(D) ==
    /\ \E report \in CheckMissingValues_reports(D) :
          last' = [Returns("CheckMissingValues", D) EXCEPT !.summary = report]
    /\ UNCHANGED <<X, mc_errors>>

\* --------------------------------------------------------- DateConverter
not_converted_rows(D, cols) == Mask(D, LAMBDA i : any_null_in_row(D, cols, i))

\* the loop over self.date_formats from format k on: X_temp is the working
\* copy, not_converted_dates the report assigned so far
RECURSIVE date_loop(_, _, _, _, _)
date_loop(X_temp, cols, date_formats, k, not_converted_dates) ==
    IF k > Len(date_formats) THEN not_converted_dates
    ELSE IF to_datetime_raises(X_temp, cols, date_formats[k])
    THEN date_loop(X_temp, cols, date_formats, k + 1, not_converted_dates)
    ELSE LET Y == apply_columns(X_temp, cols, LAMBDA v : to_datetime(v, date_formats[k]))
         IN IF \E i \in Index(Y) : any_null_in_row(Y, cols, i)
            THEN IF not_converted_rows(Y, cols) # <<>>
                 THEN not_converted_rows(Y, cols)
                 ELSE date_loop(Y, cols, date_formats, k + 1, not_converted_rows(Y, cols))
            ELSE not_converted_dates

DateConverter_report(D, date_formats) ==
    date_loop(D, dates_columns(D), date_formats, 1, <<>>)

DateConverter_transform(D, date_formats) ==
    /\ last' = [Returns("DateConverter", D) EXCEPT
                    !.index = DateConverter_report(D, date_formats),
                    !.formats = date_formats]
    /\ UNCHANGED <<X, mc_errors>>

\* ----------------------------------------------------- CheckInvalidDates
\* "It is assumed that the date columns are already in datetime format."
IsDatetimeColumn(D, c) == \A i \in Index(D) : Tag(D.rows[i][c]) \in {"ts", "null"}

CheckInvalidDates_report(D) ==
    Mask(D, LAMBDA i : ts_gt(D.rows[i]["disbursement_date"], D.rows[i]["expire_date"]))

CheckInvalidDates_transform(D) ==
    /\ IsDatetimeColumn(D, "disbursement_date")
    /\ IsDatetimeColumn(D, "expire_date")
    /\ last' = [Returns("CheckInvalidDates", D) EXCEPT !.index = CheckInvalidDates_report(D)]
    /\ UNCHANGED <<X, mc_errors>>

\* ------------------------------------------------------ ConvertedNumeric
ConvertedNumeric_coerced(D) == apply_columns(D, num_columns, to_numeric)

ConvertedNumeric_report(D) ==
    Mask(D, LAMBDA i : any_null_in_row(ConvertedNumeric_coerced(D), num_columns, i))

\* The assignment X[num_columns] = ... writes into the frame the caller
\* passed.  The caller passes its dataset X itself (cols = X.columns) or a
\* frame of its own built from some of X's columns, which lacks a numeric
\* column and makes X[num_columns] raise KeyError before anything is written.
ConvertedNumeric_transform(cols) ==
    /\ LET D == Select(X, cols)
       IN IF Range(num_columns) \subseteq Range(D.columns)
          THEN /\ X' = IF cols = X.columns THEN ConvertedNumeric_coerced(X) ELSE X
               /\ last' = [Returns("ConvertedNumeric", D) EXCEPT
                               !.index = ConvertedNumeric_report(D)]
          ELSE /\ X' = X
               /\ last' = Raises("ConvertedNumeric", D, "KeyError", "not in index",
                                 SelectSeq(num_columns, LAMBDA c : c \notin Range(D.columns)))
    /\ UNCHANGED mc_errors

\* ------------------------------------------ CheckNegativeAmountsAndZeros
missing_cols(D, num_columns_ck) ==
    SelectSeq(num_columns_ck, LAMBDA col : col \notin Range(D.columns))

negative_amounts_and_zeros(D, num_columns_ck) ==
    Mask(D, LAMBDA i : \E col \in Range(num_columns_ck) : non_positive(D.rows[i][col]))

CheckNegative_result(D, num_columns_ck) ==
    IF missing_cols(D, num_columns_ck) # <<>>
    THEN Raises("CheckNegativeAmountsAndZeros", D, "ValueError", "Missing columns: ",
                missing_cols(D, num_columns_ck))
    ELSE IF \E i \in Index(D) : \E col \in Range(num_columns_ck) : IsStr(D.rows[i][col])
    THEN Raises("CheckNegativeAmountsAndZeros", D, "TypeError", "'<' not supported", <<>>)
    ELSE IF num_columns_ck = <<>>
    THEN Raises("CheckNegativeAmountsAndZeros", D, "ValueError", "No objects to concatenate", <<>>)
    ELSE [Returns("CheckNegativeAmountsAndZeros", D) EXCEPT
             !.index = negative_amounts_and_zeros(D, num_columns_ck)]

\* transform(X) on an argument that is no DataFrame: a bare ValueError
CheckNegative_not_a_frame ==
    [NoCall EXCEPT !.op = "CheckNegativeAmountsAndZeros", !.status = "raise",
                   !.exc = "ValueError", !.arg = <<"not a DataFrame">>]

CheckNegative_transform(D, num_columns_ck, is_frame) ==
    /\ last' = IF is_frame
               THEN [CheckNegative_result(D, num_columns_ck) EXCEPT !.ck = num_columns_ck]
               ELSE [CheckNegative_not_a_frame EXCEPT !.ck = num_columns_ck]
    /\ UNCHANGED <<X, mc_errors>>

\* ------------------------------------------------------- CheckDuplicates
\* X.duplicated(keep=False): the row equals another row in every column
duplicated(D) == Mask(D, LAMBDA i : \E j \in Index(D) : j # i /\ D.rows[j] = D.rows[i])

\* sort_values("loan_id"): ascending, nulls last
loan_id_in_order(D, i, j) ==
    LET a == D.rows[i]["loan_id"]
        b == D.rows[j]["loan_id"]
    IN IsNull(b) \/ (~IsNull(a) /\ a[2] <= b[2])

CheckDuplicates_reports(D) ==
    sort_values(duplicated(D), LAMBDA i, j : loan_id_in_order(D, i, j))

CheckDuplicates_not_a_frame ==
    [NoCall EXCEPT !.op = "CheckDuplicates", !.status = "raise", !.exc = "ValueError",
                   !.text = "Input must be a DataFrame", !.arg = <<"not a DataFrame">>]

CheckDuplicates_transform(D, is_frame) ==
    /\ IF is_frame
       THEN \E report \in CheckDuplicates_reports(D) :
               last' = [Returns("CheckDuplicates", D) EXCEPT !.index = report]
       ELSE last' = CheckDuplicates_not_a_frame
    /\ UNCHANGED <<X, mc_errors>>

\* --------------------------------------------------------------- inputs
DefaultRow ==
    [c \in Range(mandatory_columns) |->
        IF c = "disbursement_date" THEN Ts(2024, 1, 1)
        ELSE IF c = "expire_date" THEN Ts(2024, 1, 10)
        ELSE IF c = "loan_id" \/ c \in Range(num_columns) THEN Num(1)
        ELSE Text(1)]

\* rows of a dataset as read from a file: the dates are still strings
RawDateRows ==
    {[DefaultRow EXCEPT !["disbursement_date"] = a, !["expire_date"] = b] :
        a \in {Null, DateStr("/", 13, 1, 2024), DateStr("-", 2024, 1, 13)},
        b \in {DateStr("/", 1, 2, 2024), DateStr("-", 2024, 1, 13)}}

\* rows whose dates are Timestamps: (start, end) pairs
ParsedDateRows ==
    {[DefaultRow EXCEPT !["disbursement_date"] = p[1], !["expire_date"] = p[2]] :
        p \in {<<Null, Ts(2024, 1, 1)>>, <<Ts(2024, 1, 10), Null>>,
               <<Ts(2024, 1, 10), Ts(2024, 1, 1)>>, <<Ts(2024, 1, 1), Ts(2024, 1, 1)>>,
               <<Ts(2023, 12, 31), Ts(2024, 1, 1)>>, <<Ts(2024, 2, 1), Ts(2024, 1, 10)>>}}

\* rows whose amounts are still strings
RawNumRows ==
    {[DefaultRow EXCEPT !["loan_amount"] = a, !["salary"] = b] :
        a \in {Null, NumStr(5), Text(2)},
        b \in {Null, Num(1)}}

\* rows whose amounts are numbers: (loan_amount, salary) pairs
NumRows ==
    {[DefaultRow EXCEPT !["loan_amount"] = p[1], !["salary"] = p[2]] :
        p \in {<<Null, Num(2)>>, <<Num(-1), Num(2)>>, <<Num(0), Num(2)>>,
               <<Num(1), Num(2)>>, <<Num(1), Num(0)>>, <<Null, Num(0)>>}}

\* rows that share or do not share their identifier
IdRows ==
    {[DefaultRow EXCEPT !["loan_id"] = Num(n), !["salary"] = b] :
        n \in 1..MaxId,
        b \in {Num(1), Num(2)}}

Frames(R) ==
    {[columns |-> mandatory_columns, rows |-> r] :
        r \in UNION {[1..n -> R] : n \in 0..MaxRows}}

Datasets ==
    Frames(RawDateRows) \cup Frames(ParsedDateRows) \cup Frames(RawNumRows)
        \cup Frames(NumRows) \cup Frames(IdRows)

Without(S) == SelectSeq(mandatory_columns, LAMBDA c : c \notin S)

\* the column lists of the frames a caller passes: all of X, or some of it
Layouts == {mandatory_columns, Without({"loan_id", "loan_amount", "salary"})}

\* the date_formats a DateConverter is constructed with
FormatLists ==
    {default_date_formats, <<fmt_ymd_dash, fmt_dmy_slash>>, <<fmt_bad, fmt_mdy_slash>>}

\* the num_columns_ck a CheckNegativeAmountsAndZeros is constructed with
CkLists ==
    {default_num_columns_ck, <<"salary", "age", "loan_amount">>, <<"loan_amount">>, <<>>}

\* ---------------------------------------------------------- specification
Init ==
    /\ X \in Datasets
    /\ mc_errors = NoErrors
    /\ last = NoCall

MandatoryColumnsStep == \E cols \in Layouts : MandatoryColumns_transform(Select(X, cols))

CheckMissingValuesStep == CheckMissingValues_transform(X)

DateConverterStep == \E date_formats \in FormatLists : DateConverter_transform(X, date_formats)

CheckInvalidDatesStep == CheckInvalidDates_transform(X)

ConvertedNumericStep == \E cols \in Layouts : ConvertedNumeric_transform(cols)

CheckNegativeStep ==
    \E cols \in Layouts : \E ck \in CkLists : \E is_frame \in BOOLEAN :
        CheckNegative_transform(Select(X, cols), ck, is_frame)

CheckDuplicatesStep == \E is_frame \in BOOLEAN : CheckDuplicates_transform(X, is_frame)

Next ==
    \/ MandatoryColumnsStep
    \/ CheckMissingValuesStep
    \/ DateConverterStep
    \/ CheckInvalidDatesStep
    \/ ConvertedNumericStep
    \/ CheckNegativeStep
    \/ CheckDuplicatesStep

Spec == Init /\ [][Next]_vars

\* ================================================================ claims
IsAscending(s) == \A i \in 1..Len(s) : \A j \in 1..Len(s) : i < j => s[i] < s[j]

SchemaPos(c) == CHOOSE k \in 1..Len(mandatory_columns) : mandatory_columns[k] = c

\* the day count a Timestamp stands for, as a single comparable number
DayNumber(t) == t[2] * 10000 + t[3] * 100 + t[4]

ParsesAll(D, fmt) ==
    \A i \in Index(D) : \A c \in Range(dates_columns(D)) :
        /\ ~IsNull(D.rows[i][c])
        /\ fmt.order # "bad"
        /\ ~IsNull(to_datetime(D.rows[i][c], fmt))

\* C1: DateConverter.transform: whenever some format of the list, at any
\* position, parses every value of every date-like column of the dataset, the
\* returned violation set is empty.
C1_Claim ==
    (/\ last.op = "DateConverter"
     /\ \E k \in 1..Len(last.formats) : ParsesAll(X, last.formats[k]))
        => last.index = <<>>

FailsCoercion(v) == ~IsNull(v) /\ IsNull(to_numeric(v))

\* C2: ConvertedNumeric.transform: a record is in the returned violation set
\* if and only if some designated numeric column holds, in the dataset as
\* passed, a non-null value that fails numeric coercion.
C2_Claim ==
    [][(last'.op = "ConvertedNumeric" /\ last'.status = "ok")
          => last'.index =
                Mask(X, LAMBDA i : \E c \in Range(num_columns) : FailsCoercion(X.rows[i][c]))]_vars

IdCount(D, v) == Cardinality({i \in Index(D) : D.rows[i]["loan_id"] = v})

\* C3: CheckDuplicates.transform: the multiset of loan_id values of the
\* returned records equals the multiset of loan_id values that occur two or
\* more times in the dataset.
C3_Claim ==
    (last.op = "CheckDuplicates" /\ last.status = "ok")
        => \A v \in {X.rows[i]["loan_id"] : i \in Index(X)} :
              Cardinality({k \in 1..Len(last.index) : X.rows[last.index[k]]["loan_id"] = v})
                 = IF IdCount(X, v) >= 2 THEN IdCount(X, v) ELSE 0

\* C4: no transform call changes any cell of the dataset the caller passed.
C4_Claim == [][X' = X]_vars

\* C5: the report CheckMissingValues.transform returns for the shared dataset
\* is the same before and after any other check has run on it.
C5_Claim == [][missing_counts(X') = missing_counts(X)]_vars

CheckedFrame ==
    /\ last.op = "CheckNegativeAmountsAndZeros"
    /\ last.arg # <<"not a DataFrame">>

CheckColumnsNumeric ==
    /\ Range(last.ck) \subseteq Range(last.arg)
    /\ \A i \in Index(X) : \A c \in Range(last.ck) : Tag(X.rows[i][c]) \in {"num", "null"}

NonPositiveReport ==
    /\ last.status = "ok"
    /\ IsAscending(last.index)
    /\ \A i \in Index(X) :
          i \in Range(last.index)
             <=> \E c \in Range(last.ck) :
                    /\ ~IsNull(X.rows[i][c])
                    /\ ~(X.rows[i][c][2] > 0)

\* C6: CheckNegativeAmountsAndZeros.transform, on a dataset whose check
\* columns are all present and numeric: a record is returned if and only if
\* some check column holds a non-null value <= 0 for it, in original row order.
\* C6 as stated: the above for every check-column list, the empty one included
C6_Claim == (CheckedFrame /\ CheckColumnsNumeric) => NonPositiveReport

\* C6 as amended: the same for every non-empty check-column list
C6_NonEmptyCheckList ==
    (CheckedFrame /\ CheckColumnsNumeric /\ last.ck # <<>>) => NonPositiveReport

C6_Witness ==
    /\ CheckedFrame /\ CheckColumnsNumeric
    /\ Len(last.ck) >= 2
    /\ last.status = "ok"
    /\ last.index = <<2>>
    /\ \E c \in Range(last.ck) : IsNull(X.rows[1][c])
    /\ \E c \in Range(last.ck) : X.rows[2][c] = Num(0)

\* C7: CheckNegativeAmountsAndZeros.transform fails with a validation error
\* naming every absent check column, in check-list order, when one is absent,
\* and with a type error, a different kind of error, when the input is no
\* DataFrame.
C7_Claim ==
    last.op = "CheckNegativeAmountsAndZeros"
        => /\ (last.arg # <<"not a DataFrame">> /\ ~(Range(last.ck) \subseteq Range(last.arg)))
                => /\ last.status = "raise"
                   /\ last.exc = "ValueError"
                   /\ last.names = SelectSeq(last.ck, LAMBDA c : c \notin Range(last.arg))
           /\ last.arg = <<"not a DataFrame">>
                => /\ last.status = "raise"
                   /\ last.exc = "TypeError"

\* C8: CheckInvalidDates.transform, on parsed dates: a record is returned if
\* and only if its start and end dates are both non-null and the start is
\* strictly later than the end, in original row order.
C8_DateRange ==
    last.op = "CheckInvalidDates"
        => /\ last.status = "ok"
           /\ IsAscending(last.index)
           /\ \A i \in Index(X) :
                 i \in Range(last.index)
                    <=> LET s == X.rows[i]["disbursement_date"]
                            e == X.rows[i]["expire_date"]
                        IN /\ ~IsNull(s) /\ ~IsNull(e)
                           /\ DayNumber(s) > DayNumber(e)

C8_Witness ==
    /\ last.op = "CheckInvalidDates"
    /\ Len(X.rows) = 2
    /\ last.index = <<2>>
    /\ X.rows[1]["disbursement_date"] = X.rows[1]["expire_date"]
    /\ ~IsNull(X.rows[1]["expire_date"])

NullCount(c) == Cardinality({i \in Index(X) : X.rows[i][c] = Null})

SummaryEntries ==
    /\ last.status = "ok"
    /\ {last.summary[k][1] : k \in 1..Len(last.summary)}
          = {c \in Range(X.columns) : NullCount(c) >= 1}
    /\ \A j, k \in 1..Len(last.summary) :
          last.summary[j][1] = last.summary[k][1] => j = k
    /\ \A k \in 1..Len(last.summary) :
          /\ last.summary[k][2] = NullCount(last.summary[k][1])
          /\ last.summary[k][2] # 0
    /\ \A j, k \in 1..Len(last.summary) :
          j < k => last.summary[j][2] >= last.summary[k][2]

TiesInColumnOrder ==
    \A j, k \in 1..Len(last.summary) :
        (j < k /\ last.summary[j][2] = last.summary[k][2])
            => SchemaPos(last.summary[j][1]) < SchemaPos(last.summary[k][1])

\* C9: CheckMissingValues.transform returns one (column, count) entry for
\* each column with at least one null and no other entry, each with the
\* column's null count, ordered by count descending.
\* C9 as stated: the above, and columns of equal count appear in the dataset's column order
C9_Claim == last.op = "CheckMissingValues" => (SummaryEntries /\ TiesInColumnOrder)

\* C9 as amended: the same, but nothing is said about the order of columns of equal count
C9_SummaryByCount == last.op = "CheckMissingValues" => SummaryEntries

C9_Witness ==
    /\ last.op = "CheckMissingValues"
    /\ Len(last.summary) = 2
    /\ last.summary[1][2] = 2
    /\ last.summary[2][2] = 1
    /\ SchemaPos(last.summary[1][1]) > SchemaPos(last.summary[2][1])

ErrorsOfLastCall ==
    last.op = "MandatoryColumns"
        => /\ last.status = "ok"
           /\ last.returned = Select(X, last.arg)
           /\ ~mc_errors.none
           /\ Range(mc_errors.list)
                 = {c \in Range(mandatory_columns) : c \notin Range(last.arg)}
           /\ \A j, k \in 1..Len(mc_errors.list) :
                 j < k => SchemaPos(mc_errors.list[j]) < SchemaPos(mc_errors.list[k])
           /\ (mc_errors.list = <<>> <=> Range(mandatory_columns) \subseteq Range(last.arg))

\* C10: MandatoryColumns: get_errors() is None until transform is called,
\* changes only in a transform call, and after a call is the list of the
\* mandatory columns absent from the dataset of that call, in schema order;
\* the call raises nothing and returns the frame it was given.
C10_GetErrors ==
    /\ [](ErrorsOfLastCall)
    /\ [][last'.op # "MandatoryColumns" => mc_errors' = mc_errors]_vars
    /\ [][mc_errors'.none => mc_errors.none]_vars

C10_Witness ==
    /\ last.op = "MandatoryColumns"
    /\ mc_errors.list = <<"loan_id", "loan_amount", "salary">>
    /\ Len(X.rows) = 2

====
